---- MODULE Spec2Model ----
(***************************************************************************)
(* The chat client of MCP-Client-App-for-Azure as a state machine.         *)
(*                                                                         *)
(* MainLayout (src/unnamed/part_000) holds the session registry and the    *)
(* displayed session; ChatInterface (client/src/components/                *)
(* ChatInterface.tsx) holds the generation flag, the in-progress tool      *)
(* names, the single pending approval prompt and the per-session           *)
(* "always approve" map.  The backend is not part of the sources: it is    *)
(* the environment, modelled from the event table of the specification.    *)
(* Events the client emits are handed to the backend at once; events the   *)
(* backend pushes wait in the FIFO `inbox` until the client handles them,  *)
(* one event per step (the client is single-threaded).  MainLayout also    *)
(* holds the tool-server registry, the tool list and the Azure settings,   *)
(* ChatInterface the message text and the tool selection, SocketContext    *)
(* the connection flag.                                                    *)
(***************************************************************************)
EXTENDS Integers, Sequences, FiniteSets, TLC

\* ------------------------------------------------------------------ bounds
MaxSessions == 2      \* sessions the backend ever allocates
MaxReq == 2           \* approval requests the backend ever creates
MaxQueue == 1         \* events in flight from the backend to the client
MaxVer == 1           \* largest update timestamp of a session
MaxTools == 1         \* toolStarted events shown at once
MaxServers == 1       \* tool servers the backend ever registers
MaxText == 2          \* characters of the message text
MaxBuffer == 1        \* events the socket buffers while disconnected
MaxToolServers == 2   \* servers whose tool lists the backend reports by itself

SessionIds == 1..MaxSessions
ToolNames == {"getForecast"}
ServerIds == 1..MaxServers

\* MCPServerConfig as the backend confirms it, with its identifier
ServerConfig(n) == [id |-> n, name |-> "weather"]
\* MCPTool: the one tool that server n offers
Tool(n) == [serverId |-> n, serverName |-> "weather", name |-> "getForecast",
            description |-> "forecast", parameters |-> "schema"]

\* the descriptor the "Add" form sends: the typed name and no identifier
NewServerConfig(name) == [id |-> 0, name |-> name]
\* the saved servers that the dialog lists: a template, and one that was
\* saved with the identifier of an earlier registration
SavedServers == {[id |-> 0, name |-> "weather"], [id |-> 1, name |-> "weather"]}
\* the details of a failure, and a status report's detail when there is none
ErrorDetails == {"ECONNREFUSED", "ENOENT"}

\* the characters of a message text, and the texts
Chars == {" ", "a"}
Texts == UNION {[1..n -> Chars] : n \in 0..MaxText}

\* AzureConfig | null.  Of the chat-style parameters the record keeps the
\* temperature, of the reasoning-style ones the reasoning effort; an absent
\* key is "undefined".  FullConfig is what an earlier save left in
\* localStorage.
NoConfig == [isNull |-> TRUE, endpoint |-> "", deployment |-> "", apiType |-> "undefined",
             temperature |-> "undefined", reasoningEffort |-> "undefined"]
FullConfig == [isNull |-> FALSE, endpoint |-> "https://aoai", deployment |-> "gpt",
               apiType |-> "undefined", temperature |-> "undefined",
               reasoningEffort |-> "undefined"]
Configs == {NoConfig, FullConfig,
            [FullConfig EXCEPT !.endpoint = ""], [FullConfig EXCEPT !.deployment = ""]}

\* null of `currentSession` (useState<ChatSession | null>(null))
NoSession == [id |-> 0, autoApproveAll |-> FALSE, updatedAt |-> 0]
\* null of `pendingApproval` (useState<any|null>(null))
NoReq == [id |-> 0, sessionId |-> 0]

VARIABLES
    sessions,               \* MainLayout: ChatSession[]
    currentSession,         \* MainLayout: ChatSession | null
    isLoading,              \* ChatInterface: boolean
    pendingToolNames,       \* ChatInterface: string[]
    pendingApproval,        \* ChatInterface: the one pending prompt, or null
    approvalRequest,        \* ChatInterface: the request of the older dialog, or null
    alwaysApproveSessions,  \* ChatInterface: Record<sessionId, boolean>
    message,                \* ChatInterface: the text of the input field
    selectedTools,          \* ChatInterface: SelectedTool[]
    mcpServers,             \* MainLayout: MCPServerConfig[]
    availableTools,         \* MainLayout: MCPTool[]
    showMCPManager,         \* MainLayout: the server-manager dialog is open
    azureConfig,            \* MainLayout: AzureConfig | null
    serverAzureConfigured,  \* MainLayout: the server has its own Azure settings
    isConnected,            \* SocketContext: boolean
    sendBuffer,             \* socket: events emitted while disconnected
    inbox,                  \* events in flight, backend -> client (FIFO)
    backend,                \* the backend's authoritative state
    lastOp,                 \* the handler (or backend step) of the last step
    emitted,                \* the events that handler emitted on the socket
    error,                  \* MainLayout: the message of the error snackbar, '' if none
    errorMessage,           \* ChatInterface: the message of its error alert, null if none
    errorListeners,         \* socket: the components whose 'error' listener is registered
    showAddForm,            \* MCPServerManager: the form for a new server is shown
    showSavedServers,       \* MCPServerManager: the list of saved servers is shown
    newServer,              \* MCPServerManager: the name typed into that form
    serverStatuses,         \* MCPServerManager: Record<server id, {status, error}>
    managerError,           \* MCPServerManager: the message of its error alert
    remembered,             \* history: owners of requests resolved "approve and remember"
    everAuto,               \* history: sessions once displayed with alwaysApprove true
    received                \* history: ids of the requests the approvalRequired handler got

vars == <<sessions, currentSession, isLoading, pendingToolNames, pendingApproval,
          alwaysApproveSessions, message, selectedTools, mcpServers, availableTools,
          showMCPManager, azureConfig, serverAzureConfigured, isConnected, sendBuffer,
          inbox, backend, lastOp, emitted, remembered, everAuto, received,
          error, errorMessage, errorListeners, showAddForm, showSavedServers, newServer,
          serverStatuses, managerError, approvalRequest>>

mainVars == <<sessions, currentSession>>
composeVars == <<message, selectedTools>>
chatVars == <<isLoading, pendingToolNames, pendingApproval, alwaysApproveSessions, composeVars,
              errorMessage>>
managerVars == <<showAddForm, showSavedServers, newServer, serverStatuses, managerError>>
registryVars == <<mcpServers, availableTools, showMCPManager, managerVars>>
configVars == <<azureConfig, serverAzureConfigured>>
appVars == <<registryVars, configVars, isConnected, error>>

\* ------------------------------------------------------------- sequences
Range(s) == {s[i] : i \in DOMAIN s}

\* Array.prototype.filter with the predicate "is a member of keep"
RECURSIVE Filter(_, _)
Filter(s, keep) ==
    IF s = <<>> THEN <<>>
    ELSE IF Head(s) \in keep THEN <<Head(s)>> \o Filter(Tail(s), keep)
         ELSE Filter(Tail(s), keep)

\* String.prototype.trim
RECURSIVE TrimStart(_)
TrimStart(s) == IF s # <<>> /\ Head(s) = " " THEN TrimStart(Tail(s)) ELSE s

RECURSIVE TrimEnd(_)
TrimEnd(s) ==
    IF s # <<>> /\ s[Len(s)] = " " THEN TrimEnd(SubSeq(s, 1, Len(s) - 1)) ELSE s

Trim(s) == TrimEnd(TrimStart(s))

\* ------------------------------------------------------ backend (environment)
FreeSession == [state |-> "free", autoApproveAll |-> FALSE, updatedAt |-> 0]

\* lazy: the backend answers a getMCPServerTools later (toolsDue) and not
\* at once; statusDue: the servers whose status report it still owes
BackendInit ==
    [sessions   |-> [s \in SessionIds |-> FreeSession],
     generating |-> {},
     requests   |-> <<>>,
     servers    |-> [n \in ServerIds |-> "free"],
     lazy       |-> FALSE,
     toolsDue   |-> {},
     statusDue  |-> {}]

Live(b, s) == s \in SessionIds /\ b.sessions[s].state = "live"

\* The Session payload the backend sends for session s.
Payload(b, s) ==
    [id |-> s, autoApproveAll |-> b.sessions[s].autoApproveAll,
     updatedAt |-> b.sessions[s].updatedAt]

NextSessionId(b) == Cardinality({s \in SessionIds : b.sessions[s].state # "free"}) + 1

Awaiting(b, s) == {i \in DOMAIN b.requests :
                      b.requests[i].sessionId = s /\ b.requests[i].status = "awaiting"}

\* Requests of session s that are awaiting are implicitly denied: "cancelled"
\* by stopGeneration, "dropped" with a deleted session.
CancelRequests(b, s, how) ==
    [i \in DOMAIN b.requests |->
        IF i \in Awaiting(b, s)
        THEN [b.requests[i] EXCEPT !.status = how]
        ELSE b.requests[i]]

NextServerId(b) == Cardinality({n \in ServerIds : b.servers[n] # "free"}) + 1

\* The servers of the backend's registry, in the order of their identifiers:
\* those it has confirmed and those it accepted and has not confirmed yet.
RECURSIVE ServerList(_, _)
ServerList(b, n) ==
    IF n > MaxServers THEN <<>>
    ELSE (IF b.servers[n] \in {"accepted", "registered"} THEN <<ServerConfig(n)>> ELSE <<>>)
         \o ServerList(b, n + 1)

\* The backend's reaction to one client event: its new state and its replies.
BackendReceive(b, e) ==
    CASE e.type = "getSessions" ->
            [b |-> b, out |-> <<[type |-> "sessions", list |-> <<>>]>>]
      [] e.type = "createNewSession" ->
            LET s  == NextSessionId(b)
                b2 == [b EXCEPT !.sessions[s] =
                         [state |-> "live", autoApproveAll |-> FALSE, updatedAt |-> 0]]
            IN  IF s \in SessionIds
                THEN [b |-> b2, out |-> <<[type |-> "sessionCreated", session |-> Payload(b2, s)]>>]
                ELSE [b |-> b, out |-> <<>>]
      [] e.type = "loadSession" ->
            IF Live(b, e.sessionId)
            THEN [b |-> b, out |-> <<[type |-> "sessionLoaded", session |-> Payload(b, e.sessionId)]>>]
            ELSE [b |-> b, out |-> <<>>]
      [] e.type = "deleteSession" ->
            IF Live(b, e.sessionId)
            THEN [b |-> [b EXCEPT !.sessions[e.sessionId].state = "deleted",
                                  !.generating = @ \ {e.sessionId},
                                  !.requests = CancelRequests(b, e.sessionId, "dropped")],
                  out |-> <<>>]
            ELSE [b |-> b, out |-> <<>>]
      [] e.type = "sendMessage" ->
            IF Live(b, e.sessionId)
            THEN [b |-> [b EXCEPT !.generating = @ \cup {e.sessionId}], out |-> <<>>]
            ELSE [b |-> b, out |-> <<>>]
      [] e.type = "stopGeneration" ->
            [b |-> [b EXCEPT !.generating = @ \ {e.sessionId},
                             !.requests = CancelRequests(b, e.sessionId, "cancelled")],
             out |-> <<>>]
      [] e.type = "approvalResult" ->
            IF e.id \in DOMAIN b.requests
            THEN LET r     == b.requests[e.id]
                     first == r.status = "awaiting"
                     b1    == [b EXCEPT !.requests[e.id].status =
                                  IF first THEN "resolved" ELSE @]
                     b2    == IF first /\ e.approved /\ e.approveAll /\ Live(b, r.sessionId)
                              THEN [b1 EXCEPT !.sessions[r.sessionId].autoApproveAll = TRUE]
                              ELSE b1
                 IN  [b |-> b2, out |-> <<>>]
            ELSE [b |-> b, out |-> <<>>]
      [] e.type = "getMCPServers" ->
            [b |-> b, out |-> <<[type |-> "mcpServers", list |-> ServerList(b, 1)]>>]
      [] e.type = "getMCPServerTools" ->
            IF e.serverId \in ServerIds /\ b.servers[e.serverId] \in {"accepted", "registered"}
            THEN IF b.lazy
                 THEN [b |-> [b EXCEPT !.toolsDue = @ \cup {e.serverId}], out |-> <<>>]
                 ELSE [b |-> b, out |-> <<[type |-> "mcpServerTools", serverId |-> e.serverId,
                                           tools |-> <<Tool(e.serverId)>>]>>]
            ELSE [b |-> b, out |-> <<>>]
      [] e.type = "registerMCPServer" ->
            LET n == NextServerId(b)
            IN  IF n \in ServerIds
                THEN [b |-> [b EXCEPT !.servers[n] = "accepted"], out |-> <<>>]
                ELSE [b |-> b, out |-> <<>>]
      [] e.type = "removeMCPServer" ->
            IF e.serverId \in ServerIds /\ b.servers[e.serverId] = "registered"
            THEN [b |-> [b EXCEPT !.servers[e.serverId] = "removed"],
                  out |-> <<[type |-> "mcpServerRemoved", serverId |-> e.serverId]>>]
            ELSE [b |-> b, out |-> <<>>]
      [] e.type = "getMCPServerStatus" ->
            IF e.serverId \in ServerIds /\ b.servers[e.serverId] \in {"accepted", "registered"}
            THEN [b |-> [b EXCEPT !.statusDue = @ \cup {e.serverId}], out |-> <<>>]
            ELSE [b |-> b, out |-> <<>>]
      \* the event of the older dialog: the backend resolves nothing with it
      [] e.type = "approveToolCall" ->
            [b |-> b, out |-> <<>>]
      \* the catalogue of saved servers is not part of the client state kept
      \* here: its reply changes nothing of it
      [] e.type = "getSavedServers" ->
            [b |-> b, out |-> <<>>]

RECURSIVE BackendReceiveAll(_, _)
BackendReceiveAll(b, evs) ==
    IF evs = <<>> THEN [b |-> b, out |-> <<>>]
    ELSE \* r1: the first event received, r2: the others received after it
         CHOOSE r \in UNION {{[b |-> r2.b, out |-> r1.out \o r2.out] :
                                 r2 \in {BackendReceiveAll(r1.b, Tail(evs))}} :
                              r1 \in {BackendReceive(b, Head(evs))}} : TRUE

\* socket.emit: the events go to the backend, whose replies join the inbox;
\* while the socket is disconnected it buffers them until it reconnects.
Emit(evs, rest) ==
    LET r == BackendReceiveAll(backend, evs)
    IN  /\ emitted' = evs
        /\ IF isConnected
           THEN /\ backend' = r.b
                /\ inbox' = rest \o r.out
                /\ UNCHANGED sendBuffer
           ELSE /\ Len(sendBuffer) + Len(evs) <= MaxBuffer
                /\ sendBuffer' = sendBuffer \o evs
                /\ inbox' = rest
                /\ UNCHANGED backend

Room(n) == Len(inbox) + n <= MaxQueue

\* ------------------------------------------------------------ derived state
\* ChatInterface's own test of the settings it is given
isChatInterfaceAzureConfigEffectivelyMissing(config) ==
    IF config.isNull THEN TRUE
    ELSE config.endpoint = "" \/ config.deployment = ""

\* MainLayout's test: settings of the server make the client's optional
isAzureConfigEffectivelyMissing(config, configured) ==
    IF configured = "true" THEN FALSE
    ELSE IF config.isNull THEN TRUE
    ELSE config.endpoint = "" \/ config.deployment = ""

azureConfigMissing == isAzureConfigEffectivelyMissing(azureConfig, serverAzureConfigured)

configIsEffectivelyMissing == isChatInterfaceAzureConfigEffectivelyMissing(azureConfig)

\* currentSession && !azureConfigMissing ? <ChatInterface ... />
MountedWith(session, config, configured) ==
    session # NoSession /\ ~isAzureConfigEffectivelyMissing(config, configured)

Mounted == MountedWith(currentSession, azureConfig, serverAzureConfigured)

AlwaysApproveOf(map, session) ==
    IF session = NoSession THEN FALSE
    ELSE map[session.id] \/ session.autoApproveAll

alwaysApprove == AlwaysApproveOf(alwaysApproveSessions, currentSession)

NoPolicy == [s \in SessionIds |-> FALSE]

\* A freshly constructed ChatInterface.
ChatInit ==
    /\ isLoading' = FALSE
    /\ pendingToolNames' = <<>>
    /\ pendingApproval' = NoReq
    /\ alwaysApproveSessions' = NoPolicy
    /\ message' = <<>>
    /\ selectedTools' = <<>>
    /\ errorMessage' = ""

\* A freshly constructed MCPServerManager.
NoStatus == [status |-> "", error |-> ""]
ManagerInit ==
    /\ showAddForm' = FALSE
    /\ showSavedServers' = FALSE
    /\ newServer' = ""
    /\ serverStatuses' = [n \in ServerIds |-> NoStatus]
    /\ managerError' = ""

\* The 'error' listeners after a step.  MainLayout registers one with its
\* socket effect.  The effect of ChatInterface on [socket, alwaysApprove,
\* session.id] registers one, and its cleanup, before the effect runs again
\* and when the component unmounts, is socket.off('error'), which removes
\* every listener of the event.  MCPServerManager registers one while it is
\* mounted and removes that one when it unmounts.
ErrorListenersAfter ==
    LET cleanup == Mounted /\ (\/ ~Mounted'
                               \/ currentSession'.id # currentSession.id
                               \/ alwaysApprove' # alwaysApprove)
        kept    == IF cleanup THEN {} ELSE errorListeners
    IN  (kept \cap {"main"})
           \cup (IF Mounted' THEN {"chat"} ELSE {})
           \cup (IF showMCPManager'
                 THEN (IF showMCPManager THEN kept \cap {"manager"} ELSE {"manager"})
                 ELSE {})

\* a ChatInterface whose 'approvalRequired' handler also stores the request
\* for the older dialog
approvalRequestStored(prev, op) ==
    IF op = "approvalRequired" THEN Head(inbox).req
    ELSE IF op = "handleApproval" THEN NoReq ELSE prev

\* approvalRequest after the handler op: setApprovalRequest has one call,
\* setApprovalRequest(null) in handleApproval
approvalRequestAfter(prev, op) ==
    IF op = "handleApproval" THEN NoReq ELSE prev

\* what follows every step: the history of the displayed policy, the
\* effects that register and remove the 'error' listeners, and the state
\* of the older approval dialog
Observe ==
    /\ approvalRequest' = approvalRequestAfter(approvalRequest, lastOp')
    /\ everAuto' = everAuto \cup
          {s \in SessionIds : currentSession'.id = s
                              /\ AlwaysApproveOf(alwaysApproveSessions', currentSession')}
    /\ errorListeners' = ErrorListenersAfter

InitWith(b, config, configured) ==
    /\ sessions = <<>>
    /\ currentSession = NoSession
    /\ isLoading = FALSE
    /\ pendingToolNames = <<>>
    /\ pendingApproval = NoReq
    /\ approvalRequest = NoReq
    /\ alwaysApproveSessions = NoPolicy
    /\ message = <<>>
    /\ selectedTools = <<>>
    /\ mcpServers = <<>>
    /\ availableTools = <<>>
    /\ showMCPManager = FALSE
    /\ azureConfig = config
    /\ serverAzureConfigured = configured
    /\ isConnected = TRUE
    /\ sendBuffer = <<>>
    /\ backend = b
    /\ inbox = BackendReceiveAll(b, <<[type |-> "getSessions"],
                                      [type |-> "getMCPServers"]>>).out
    /\ lastOp = "init"
    /\ emitted = <<[type |-> "getSessions"], [type |-> "getMCPServers"]>>
    /\ remembered = {}
    /\ everAuto = {}
    /\ received = {}
    /\ error = ""
    /\ errorMessage = ""
    /\ errorListeners = {"main"}
    /\ showAddForm = FALSE
    /\ showSavedServers = FALSE
    /\ newServer = ""
    /\ serverStatuses = [n \in ServerIds |-> NoStatus]
    /\ managerError = ""

\* localStorage holds complete settings, the server has none of its own
Init == InitWith(BackendInit, FullConfig, "false")

\* a backend whose tool servers were registered over an earlier connection
BackendServing == [BackendInit EXCEPT !.servers = [n \in ServerIds |-> "registered"]]

\* localStorage holds no settings, the server has not answered yet, and the
\* backend already has its tool servers
InitCompose == InitWith(BackendServing, NoConfig, "null")

\* ------------------------------------------------- MainLayout: socket events
\* A selected tool is "still there" when a listed tool has its server and name.
StillAvailable(sel, tools) ==
    \E i \in DOMAIN tools : tools[i].serverId = sel.serverId /\ tools[i].name = sel.name

\* The pruning effect of ChatInterface has work to do: it runs after the
\* render that changed availableTools and before the next event is handled.
PruneDue ==
    /\ Mounted
    /\ \E i \in DOMAIN selectedTools : ~StillAvailable(selectedTools[i], availableTools)

\* A step that handles the event at the head of the inbox.
Receives(type) ==
    /\ isConnected
    /\ ~PruneDue
    /\ inbox # <<>>
    /\ Head(inbox).type = type

\* a handler that puts the new session at the end of the list
sessionCreatedListAtEnd(prev, session) == Append(prev, session)

\* setSessions(prev => [session, ...prev])
sessionCreatedList(prev, session) == <<session>> \o prev

\* socket.on('sessionCreated')
OnSessionCreated ==
    /\ Receives("sessionCreated")
    /\ LET session == Head(inbox).session
       IN  /\ currentSession' = session
           /\ sessions' = sessionCreatedList(sessions, session)
           /\ lastOp' = "sessionCreated"
    /\ Emit(<<>>, Tail(inbox))
    /\ UNCHANGED <<chatVars, remembered, received>>
    /\ UNCHANGED appVars
    /\ Observe

\* socket.on('sessions')
OnSessions ==
    /\ Receives("sessions")
    /\ sessions' = Head(inbox).list
    /\ lastOp' = "sessions"
    /\ Emit(<<>>, Tail(inbox))
    /\ UNCHANGED <<currentSession, chatVars, remembered, received>>
    /\ UNCHANGED appVars
    /\ Observe

\* socket.on('sessionLoaded')
OnSessionLoaded ==
    /\ Receives("sessionLoaded")
    /\ LET session == Head(inbox).session
       IN  /\ currentSession' = session
           /\ lastOp' = "sessionLoaded"
    /\ Emit(<<>>, Tail(inbox))
    /\ UNCHANGED <<sessions, chatVars, remembered, received>>
    /\ UNCHANGED appVars
    /\ Observe

\* setSessions(prev => prev.map(s => s.id === session.id ? session : s))
sessionUpdatedList(prev, session) ==
    LET Replace(s) == IF s.id = session.id THEN session ELSE s
    IN  [i \in DOMAIN prev |-> Replace(prev[i])]

\* the same with the displayed session replaced whatever its id
sessionUpdatedCurrentAlways(prev, session) == session

\* setCurrentSession(prev => (prev && prev.id === session.id ? session : prev))
sessionUpdatedCurrent(prev, session) ==
    IF prev # NoSession /\ prev.id = session.id THEN session ELSE prev

\* socket.on('sessionUpdated')
OnSessionUpdated ==
    /\ Receives("sessionUpdated")
    /\ LET session == Head(inbox).session
       IN  /\ sessions' = sessionUpdatedList(sessions, session)
           /\ currentSession' = sessionUpdatedCurrent(currentSession, session)
           /\ lastOp' = "sessionUpdated"
    /\ Emit(<<>>, Tail(inbox))
    /\ UNCHANGED <<chatVars, remembered, received>>
    /\ UNCHANGED appVars
    /\ Observe

\* ------------------------------------------------- MainLayout: user actions
ListedIds == {s.id : s \in Range(sessions)}

\* ------------------------------------------------ SessionList: the display
\* new Date(updatedAt).getTime(): the timestamp in milliseconds
getTime(updatedAt) == updatedAt * 1000

\* the comparator with its operands exchanged
compareSessionsOldestFirst(a, b) == getTime(a.updatedAt) - getTime(b.updatedAt)

\* the comparator of the sort, tB - tA
compareSessions(a, b) == getTime(b.updatedAt) - getTime(a.updatedAt)

\* Array.prototype.sort is stable: an element goes behind every element
\* that does not compare greater than it
RECURSIVE InsertSession(_, _)
InsertSession(sorted, x) ==
    IF sorted = <<>> THEN <<x>>
    ELSE IF compareSessions(Head(sorted), x) <= 0
         THEN <<Head(sorted)>> \o InsertSession(Tail(sorted), x)
         ELSE <<x>> \o sorted

\* const sortedSessions = [...sessions].sort(...): a sorted copy of the prop,
\* computed in the body of every render
RECURSIVE sortedSessions(_)
sortedSessions(list) ==
    IF list = <<>> THEN <<>>
    ELSE InsertSession(sortedSessions(SubSeq(list, 1, Len(list) - 1)), list[Len(list)])

\* "New Chat"
HandleNewSession ==
    /\ NextSessionId(backend) \in SessionIds
    /\ Room(1)
    /\ lastOp' = "handleNewSession"
    /\ Emit(<<[type |-> "createNewSession"]>>, inbox)
    /\ UNCHANGED <<mainVars, chatVars, remembered, received>>
    /\ UNCHANGED appVars
    /\ Observe

\* a click on an entry of the session list
HandleLoadSession(sessionId) ==
    /\ sessionId \in ListedIds
    /\ Room(1)
    /\ lastOp' = "handleLoadSession"
    /\ Emit(<<[type |-> "loadSession", sessionId |-> sessionId]>>, inbox)
    /\ UNCHANGED <<mainVars, chatVars, remembered, received>>
    /\ UNCHANGED appVars
    /\ Observe

\* the delete button of an entry of the session list; deleting the displayed
\* session unmounts ChatInterface, whose state is gone with it
HandleDeleteSession(sessionId) ==
    /\ sessionId \in ListedIds
    /\ lastOp' = "handleDeleteSession"
    /\ Emit(<<[type |-> "deleteSession", sessionId |-> sessionId]>>, inbox)
    /\ IF currentSession.id = sessionId
       THEN currentSession' = NoSession /\ ChatInit
       ELSE UNCHANGED <<currentSession, chatVars>>
    /\ UNCHANGED <<sessions, remembered, received>>
    /\ UNCHANGED appVars
    /\ Observe

\* ---------------------------------------------- ChatInterface: socket events
\* the same handler, leaving the tool names
OnMessageResponseKeepsTools ==
    /\ Receives("messageResponse")
    /\ Mounted
    /\ isLoading' = FALSE
    /\ lastOp' = "messageResponse"
    /\ Emit(<<>>, Tail(inbox))
    /\ UNCHANGED <<mainVars, pendingToolNames, pendingApproval, alwaysApproveSessions, errorMessage,
                   remembered, received, composeVars>>
    /\ UNCHANGED appVars
    /\ Observe

\* socket.on('messageResponse'): not filtered by session
OnMessageResponse ==
    /\ Receives("messageResponse")
    /\ Mounted
    /\ isLoading' = FALSE
    /\ pendingToolNames' = <<>>
    /\ lastOp' = "messageResponse"
    /\ Emit(<<>>, Tail(inbox))
    /\ UNCHANGED <<mainVars, pendingApproval, alwaysApproveSessions, errorMessage, remembered, received, composeVars>>
    /\ UNCHANGED appVars
    /\ Observe

\* toolStartedHandler
OnToolStarted ==
    /\ Receives("toolStarted")
    /\ Mounted
    /\ LET data == Head(inbox)
       IN  /\ pendingToolNames' =
                 IF data.sessionId # currentSession.id THEN pendingToolNames
                 ELSE Append(pendingToolNames, data.toolName)
           /\ lastOp' = "toolStarted"
    /\ Emit(<<>>, Tail(inbox))
    /\ UNCHANGED <<mainVars, isLoading, pendingApproval, alwaysApproveSessions, errorMessage, remembered, received, composeVars>>
    /\ UNCHANGED appVars
    /\ Observe

\* the 'approvalRequired' handler: the policy it reads is the one of the
\* displayed session at the last render
OnApprovalRequired ==
    /\ Receives("approvalRequired")
    /\ Mounted
    /\ LET req == Head(inbox).req
       IN  /\ lastOp' = "approvalRequired"
           /\ IF alwaysApprove
              THEN /\ Emit(<<[type |-> "approvalResult", id |-> req.id,
                              approved |-> TRUE, approveAll |-> TRUE]>>, Tail(inbox))
                   /\ UNCHANGED pendingApproval
              ELSE /\ Emit(<<>>, Tail(inbox))
                   /\ pendingApproval' = req
           /\ received' = received \cup {req.id}
    /\ UNCHANGED <<mainVars, isLoading, pendingToolNames, alwaysApproveSessions, errorMessage, remembered, composeVars>>
    /\ UNCHANGED appVars
    /\ Observe

ChatEvents == {"messageResponse", "toolStarted", "approvalRequired"}

\* No ChatInterface is mounted: nothing listens to its events.
OnUnheard ==
    /\ inbox # <<>>
    /\ Head(inbox).type \in ChatEvents
    /\ ~Mounted
    /\ lastOp' = "unheard"
    /\ Emit(<<>>, Tail(inbox))
    /\ UNCHANGED <<mainVars, chatVars, remembered, received>>
    /\ UNCHANGED appVars
    /\ Observe

\* ------------------------------------------------------ the 'error' event
\* socket.on('error') of MainLayout, of ChatInterface and of
\* MCPServerManager: the socket calls the listeners that are registered
OnError ==
    /\ Receives("error")
    /\ LET msg == Head(inbox).message
       IN  /\ error' = IF "main" \in errorListeners THEN msg ELSE error
           /\ IF "chat" \in errorListeners
              THEN isLoading' = FALSE /\ errorMessage' = msg
              ELSE UNCHANGED <<isLoading, errorMessage>>
           /\ managerError' = IF "manager" \in errorListeners THEN msg ELSE managerError
    /\ Emit(<<>>, Tail(inbox))
    /\ lastOp' = "error"
    /\ UNCHANGED <<mainVars, pendingToolNames, pendingApproval, alwaysApproveSessions,
                   composeVars, remembered, received>>
    /\ UNCHANGED <<mcpServers, availableTools, showMCPManager, showAddForm, showSavedServers,
                   newServer, serverStatuses, configVars, isConnected>>
    /\ Observe

\* setTimeout(() => setErrorMessage(null), 5000)
ErrorTimeout ==
    /\ errorMessage # ""
    /\ errorMessage' = ""
    /\ Emit(<<>>, inbox)
    /\ lastOp' = "errorTimeout"
    /\ UNCHANGED <<mainVars, isLoading, pendingToolNames, pendingApproval,
                   alwaysApproveSessions, composeVars, remembered, received>>
    /\ UNCHANGED appVars
    /\ Observe

\* the snackbar of MainLayout closes, by its button or after six seconds
handleCloseError ==
    /\ error # ""
    /\ error' = ""
    /\ Emit(<<>>, inbox)
    /\ lastOp' = "handleCloseError"
    /\ UNCHANGED <<mainVars, chatVars, registryVars, configVars, isConnected,
                   remembered, received>>
    /\ Observe

\* ---------------------------------------------- ChatInterface: user actions
\* the input field: disabled={configIsEffectivelyMissing || isLoading}
InputEnabled == ~configIsEffectivelyMissing /\ ~isLoading

\* onChange={(e) => setMessage(e.target.value)}
SetMessage(text) ==
    /\ Mounted
    /\ message' = text
    /\ Emit(<<>>, inbox)
    /\ lastOp' = "setMessage"
    /\ UNCHANGED <<mainVars, isLoading, pendingToolNames, pendingApproval,
                   alwaysApproveSessions, errorMessage, selectedTools, remembered, received>>
    /\ UNCHANGED appVars
    /\ Observe

\* disabled={!message.trim() || configIsEffectivelyMissing || isLoading}
SendEnabled == Trim(message) # <<>> /\ ~configIsEffectivelyMissing /\ ~isLoading

\* the same tests with the settings only tested for null
handleSendMessageReturnsNullOnly ==
    \/ Trim(message) = <<>>
    \/ azureConfig.isNull

\* if (configIsEffectivelyMissing) return;
\* if (!message.trim() || !socket || !azureConfig) return;
handleSendMessageReturns ==
    \/ configIsEffectivelyMissing
    \/ Trim(message) = <<>>
    \/ azureConfig.isNull

\* the event with the tools' parameter schemas left out
sendMessageEventWithoutSchemas(session, text, tools, config) ==
    [type |-> "sendMessage", sessionId |-> session.id, message |-> Trim(text),
     selectedTools |-> [i \in DOMAIN tools |-> [tools[i] EXCEPT !.parameters = ""]],
     azureConfig |-> config]

\* socket.emit('sendMessage', { sessionId, message: message.trim(), selectedTools, azureConfig })
sendMessageEvent(session, text, tools, config) ==
    [type |-> "sendMessage", sessionId |-> session.id, message |-> Trim(text),
     selectedTools |-> tools, azureConfig |-> config]

\* a send that shows the user's message at once, as a local change of the
\* displayed session
sessionAfterOptimisticSend(session) == [session EXCEPT !.updatedAt = MaxVer + 1]

\* the displayed session after the send: `session` is a prop, and the
\* handler calls no setter of MainLayout
sessionAfterSend(session) == session

handleSendMessage ==
    /\ Mounted
    /\ lastOp' = "handleSendMessage"
    /\ IF handleSendMessageReturns
       THEN /\ Emit(<<>>, inbox)
            /\ UNCHANGED <<isLoading, message, currentSession>>
       ELSE /\ isLoading' = TRUE
            /\ Emit(<<sendMessageEvent(currentSession, message, selectedTools, azureConfig)>>,
                    inbox)
            /\ message' = <<>>
            /\ currentSession' = sessionAfterSend(currentSession)
    /\ UNCHANGED <<sessions, pendingToolNames, pendingApproval, alwaysApproveSessions, errorMessage,
                   selectedTools, remembered, received>>
    /\ UNCHANGED appVars
    /\ Observe

\* the buttons of the pending-approval dialog, and its onClose
ApprovalChoicesWithDenyAll ==
    {<<FALSE, FALSE>>, <<TRUE, FALSE>>, <<TRUE, TRUE>>, <<FALSE, TRUE>>}

ApprovalChoices == {<<FALSE, FALSE>>, <<TRUE, FALSE>>, <<TRUE, TRUE>>}

sendApprovalUnguarded == FALSE

\* if (!socket || !pendingApproval) return;
sendApprovalReturns == pendingApproval = NoReq

\* setAlwaysApproveSessions(prev => ({ ...prev, [session.id]: true }))
sendApprovalPolicy(prev, approveAll) ==
    IF approveAll THEN [prev EXCEPT ![currentSession.id] = TRUE] ELSE prev

sendApproval(approved, approveAll) ==
    /\ Mounted
    /\ lastOp' = "sendApproval"
    /\ IF sendApprovalReturns
       THEN /\ Emit(<<>>, inbox)
            /\ UNCHANGED <<pendingApproval, alwaysApproveSessions, remembered>>
       ELSE /\ alwaysApproveSessions' = sendApprovalPolicy(alwaysApproveSessions, approveAll)
            /\ Emit(<<[type |-> "approvalResult", id |-> pendingApproval.id,
                       approved |-> approved, approveAll |-> approveAll]>>, inbox)
            /\ pendingApproval' = NoReq
            /\ remembered' = IF approved /\ approveAll
                             THEN remembered \cup {pendingApproval.sessionId}
                             ELSE remembered
    /\ UNCHANGED <<mainVars, isLoading, pendingToolNames, errorMessage, received, composeVars>>
    /\ UNCHANGED appVars
    /\ Observe

\* if (!approvalRequest || !socket) return;
handleApprovalReturns == approvalRequest = NoReq

\* the handler of the older dialog's buttons
handleApproval(approved, approveAll) ==
    /\ Mounted
    /\ lastOp' = "handleApproval"
    /\ IF handleApprovalReturns
       THEN /\ Emit(<<>>, inbox)
            /\ UNCHANGED <<alwaysApproveSessions, isLoading>>
       ELSE /\ Emit(<<[type |-> "approveToolCall", sessionId |-> approvalRequest.sessionId,
                       approvalRequestId |-> approvalRequest.id,
                       approved |-> approved, approveAll |-> approveAll]>>, inbox)
            /\ alwaysApproveSessions' = sendApprovalPolicy(alwaysApproveSessions, approveAll)
            /\ isLoading' = TRUE
    /\ UNCHANGED <<mainVars, pendingToolNames, pendingApproval, errorMessage, remembered,
                   received, composeVars>>
    /\ UNCHANGED appVars
    /\ Observe

\* the function called with the arguments of one of the dialog's buttons
ResolveApproval == \E c \in ApprovalChoices : sendApproval(c[1], c[2])

\* {pendingApproval && (<Dialog open ...>)}
DialogOpen == pendingApproval # NoReq

\* disabled={!isLoading}
StopEnabled == isLoading

handleStopGenerationKeepsTools ==
    /\ Mounted
    /\ lastOp' = "handleStopGeneration"
    /\ Emit(<<[type |-> "stopGeneration", sessionId |-> currentSession.id]>>, inbox)
    /\ isLoading' = FALSE
    /\ UNCHANGED <<mainVars, pendingToolNames, pendingApproval, alwaysApproveSessions, errorMessage, remembered, received, composeVars>>
    /\ UNCHANGED appVars
    /\ Observe

handleStopGeneration ==
    /\ Mounted
    /\ lastOp' = "handleStopGeneration"
    /\ Emit(<<[type |-> "stopGeneration", sessionId |-> currentSession.id]>>, inbox)
    /\ isLoading' = FALSE
    /\ pendingToolNames' = <<>>
    /\ UNCHANGED <<mainVars, pendingApproval, alwaysApproveSessions, errorMessage, remembered, received, composeVars>>
    /\ UNCHANGED appVars
    /\ Observe

\* ------------------------------------------- MainLayout: the server registry
RECURSIVE ToolRequests(_)
ToolRequests(servers) ==
    IF servers = <<>> THEN <<>>
    ELSE (IF Head(servers).id # 0
          THEN <<[type |-> "getMCPServerTools", serverId |-> Head(servers).id]>>
          ELSE <<>>) \o ToolRequests(Tail(servers))

\* servers.forEach(srv => socket.emit('getMCPServerStatus', getServerKey(srv)))
StatusRequests(servers) ==
    [i \in DOMAIN servers |-> [type |-> "getMCPServerStatus", serverId |-> servers[i].id]]

\* MCPServerManager, mounted while the dialog is open: its effect on a
\* changed `servers` prop asks for the status of every server
ManagerEffect(open, servers) == IF open THEN StatusRequests(servers) ELSE <<>>

\* MCPServerManager's own 'mcpServers' listener, there while it is mounted
ManagerOnMcpServers(open, list) == IF open THEN StatusRequests(list) ELSE <<>>

\* socket.on('mcpServers')
OnMcpServers ==
    /\ Receives("mcpServers")
    /\ LET servers == Head(inbox).list
       IN  /\ mcpServers' = servers
           /\ Emit(ToolRequests(servers)
                     \o ManagerOnMcpServers(showMCPManager, servers)
                     \o ManagerEffect(showMCPManager, servers), Tail(inbox))
    /\ lastOp' = "mcpServers"
    /\ UNCHANGED <<mainVars, chatVars, availableTools, showMCPManager, managerVars, configVars,
                   isConnected, remembered, received, error>>
    /\ Observe

\* setMcpServers(prev => [...prev, server])
mcpServerRegisteredList(prev, server) == Append(prev, server)

\* socket.on('mcpServerRegistered')
OnMcpServerRegistered ==
    /\ Receives("mcpServerRegistered")
    /\ LET server == Head(inbox).server
       IN  /\ mcpServers' = mcpServerRegisteredList(mcpServers, server)
           /\ Emit(ToolRequests(<<server>>)
                     \o ManagerEffect(showMCPManager, mcpServers'), Tail(inbox))
    /\ lastOp' = "mcpServerRegistered"
    /\ UNCHANGED <<mainVars, chatVars, availableTools, showMCPManager, managerVars, configVars,
                   isConnected, remembered, received, error>>
    /\ Observe

\* a handler that adds the tools it receives to those it has
mcpServerToolsAppended(prev, data) == prev \o data.tools

\* setAvailableTools(prev => [...prev.filter(tool => tool.serverId !== data.serverId),
\*                            ...data.tools])
mcpServerToolsList(prev, data) ==
    Filter(prev, {tool \in Range(prev) : tool.serverId # data.serverId}) \o data.tools

\* socket.on('mcpServerTools')
OnMcpServerTools ==
    /\ Receives("mcpServerTools")
    /\ availableTools' = mcpServerToolsList(availableTools, Head(inbox))
    /\ Emit(<<>>, Tail(inbox))
    /\ lastOp' = "mcpServerTools"
    /\ UNCHANGED <<mainVars, chatVars, mcpServers, showMCPManager, managerVars, configVars,
                   isConnected, remembered, received, error>>
    /\ Observe

\* socket.on('mcpServerRemoved'): the server and its tools go in one render
OnMcpServerRemoved ==
    /\ Receives("mcpServerRemoved")
    /\ LET serverId == Head(inbox).serverId
       IN  /\ mcpServers' = Filter(mcpServers, {s \in Range(mcpServers) : s.id # serverId})
           /\ availableTools' =
                 Filter(availableTools, {tool \in Range(availableTools) : tool.serverId # serverId})
           /\ Emit(ManagerEffect(showMCPManager, mcpServers'), Tail(inbox))
    /\ lastOp' = "mcpServerRemoved"
    /\ UNCHANGED <<mainVars, chatVars, showMCPManager, managerVars, configVars,
                   isConnected, remembered, received, error>>
    /\ Observe

\* "MCP Servers": the dialog opens, and its effects ask for the saved
\* servers, the server list and the status of every server it is given
OpenMCPManager ==
    /\ ~showMCPManager
    /\ showMCPManager' = TRUE
    /\ Room(1)
    /\ Emit(<<[type |-> "getSavedServers"], [type |-> "getMCPServers"]>>
              \o StatusRequests(mcpServers), inbox)
    /\ lastOp' = "openMCPManager"
    /\ UNCHANGED managerVars
    /\ UNCHANGED <<mainVars, chatVars, mcpServers, availableTools, configVars,
                   isConnected, remembered, received, error>>
    /\ Observe

\* onClose={() => setShowMCPManager(false)}: MCPServerManager is no longer
\* rendered, and its state is gone with it
CloseMCPManager ==
    /\ showMCPManager
    /\ showMCPManager' = FALSE
    /\ ManagerInit
    /\ Emit(<<>>, inbox)
    /\ lastOp' = "closeMCPManager"
    /\ UNCHANGED <<mainVars, chatVars, mcpServers, availableTools, configVars,
                   isConnected, remembered, received, error>>
    /\ Observe

\* "Add New Server": onClick={() => setShowAddForm(true)}
ShowAddForm ==
    /\ showMCPManager
    /\ showAddForm' = TRUE
    /\ Emit(<<>>, inbox)
    /\ lastOp' = "showAddForm"
    /\ UNCHANGED <<mainVars, chatVars, mcpServers, availableTools, showMCPManager,
                   showSavedServers, newServer, serverStatuses, managerError,
                   configVars, isConnected, remembered, received, error>>
    /\ Observe

\* "Add Saved Server": onClick={() => setShowSavedServers(true)}
ShowSavedServers ==
    /\ showMCPManager
    /\ showSavedServers' = TRUE
    /\ Emit(<<>>, inbox)
    /\ lastOp' = "showSavedServers"
    /\ UNCHANGED <<mainVars, chatVars, mcpServers, availableTools, showMCPManager,
                   showAddForm, newServer, serverStatuses, managerError,
                   configVars, isConnected, remembered, received, error>>
    /\ Observe

\* the "Server Name" field of the form: setNewServer(prev => ({...prev, name}))
setNewServerName(name) ==
    /\ showMCPManager
    /\ newServer' = name
    /\ Emit(<<>>, inbox)
    /\ lastOp' = "setNewServerName"
    /\ UNCHANGED <<mainVars, chatVars, mcpServers, availableTools, showMCPManager,
                   showAddForm, showSavedServers, serverStatuses, managerError,
                   configVars, isConnected, remembered, received, error>>
    /\ Observe

\* a handler that never returns early (the guard of handleAddServer left out)
handleAddServerNeverReturns == FALSE

\* if (!socket || !newServer.name || !newServer.transport) return;
\* the socket is there, and the transport has its default 'stdio'
handleAddServerReturns == newServer = ""

\* MCPServerManager: "Add" of the form (the descriptor carries no identifier)
handleAddServer ==
    /\ showMCPManager
    /\ IF handleAddServerReturns
       THEN /\ Emit(<<>>, inbox)
            /\ UNCHANGED managerVars
       ELSE /\ NextServerId(backend) \in ServerIds
            /\ Emit(<<[type |-> "registerMCPServer",
                       server |-> NewServerConfig(newServer)]>>, inbox)
            /\ newServer' = ""
            /\ showAddForm' = FALSE
            /\ UNCHANGED <<showSavedServers, serverStatuses, managerError>>
    /\ lastOp' = "handleAddServer"
    /\ UNCHANGED <<mainVars, chatVars, mcpServers, availableTools, showMCPManager,
                   configVars, isConnected, remembered, received, error>>
    /\ Observe

\* a descriptor sent as it was saved, its identifier kept
savedServerAsSaved(savedServer) == savedServer

\* const serverConfig = { ...savedServer, id: undefined }
savedServerConfig(savedServer) == [savedServer EXCEPT !.id = 0]

\* MCPServerManager: "Add" of a saved server
handleAddSavedServer(savedServer) ==
    /\ showMCPManager
    /\ NextServerId(backend) \in ServerIds
    /\ Emit(<<[type |-> "registerMCPServer",
               server |-> savedServerConfig(savedServer)]>>, inbox)
    /\ showSavedServers' = FALSE
    /\ lastOp' = "handleAddSavedServer"
    /\ UNCHANGED <<mainVars, chatVars, mcpServers, availableTools, showMCPManager,
                   showAddForm, newServer, serverStatuses, managerError,
                   configVars, isConnected, remembered, received, error>>
    /\ Observe

\* appendPathHint: a "no such file" failure gets the hint about PATH
appendPathHint(msg) ==
    IF msg = "ENOENT" THEN "ENOENT: try adding the command dir to PATH" ELSE msg

\* a status handler that drops a server that failed from the registry
serverListAfterFailure(servers, res) ==
    IF res.status = "error"
    THEN Filter(servers, {s \in Range(servers) : s.id # res.id})
    ELSE servers

\* handleServerStatus never calls setMcpServers: the registry is MainLayout's
serverListAfterStatus(servers, res) == servers

\* a status handler that asks for the server list again
handleServerStatusRefreshes(res) == <<[type |-> "getMCPServers"]>>

\* what handleServerStatus emits: it calls setServerStatuses and no emit
handleServerStatusEmits(res) == <<>>

\* MCPServerManager, socket.on('mcpServerStatus'): handleServerStatus
OnMcpServerStatus ==
    /\ Receives("mcpServerStatus")
    /\ showMCPManager
    /\ LET res == Head(inbox)
           key == res.id
       IN  /\ IF key = 0
              THEN UNCHANGED serverStatuses
              ELSE serverStatuses' =
                      [serverStatuses EXCEPT ![key] =
                          [status |-> res.status,
                           error  |-> IF res.error # "" THEN appendPathHint(res.error)
                                      ELSE ""]]
           /\ mcpServers' = serverListAfterStatus(mcpServers, res)
    /\ Emit(handleServerStatusEmits(Head(inbox)), Tail(inbox))
    /\ lastOp' = "mcpServerStatus"
    /\ UNCHANGED <<mainVars, chatVars, availableTools, showMCPManager, showAddForm,
                   showSavedServers, newServer, managerError, configVars, isConnected,
                   remembered, received, error>>
    /\ Observe

\* no MCPServerManager is mounted: nothing listens to the status reports
OnStatusUnheard ==
    /\ Receives("mcpServerStatus")
    /\ ~showMCPManager
    /\ Emit(<<>>, Tail(inbox))
    /\ lastOp' = "statusUnheard"
    /\ UNCHANGED <<mainVars, chatVars, registryVars, configVars, isConnected,
                   remembered, received, error>>
    /\ Observe

\* MCPServerManager: the remove button of a listed server
handleRemoveServer(serverId) ==
    /\ showMCPManager
    /\ \E i \in DOMAIN mcpServers : mcpServers[i].id = serverId
    /\ Room(1)
    /\ Emit(<<[type |-> "removeMCPServer", serverId |-> serverId]>>, inbox)
    /\ lastOp' = "handleRemoveServer"
    /\ UNCHANGED <<mainVars, chatVars, registryVars, configVars, isConnected,
                   remembered, received, error>>
    /\ Observe

\* --------------------------------------- ChatInterface: the tool selection
\* the SelectedTool built from an MCPTool
SelectedToolOf(tool) ==
    [id |-> <<tool.serverId, tool.name>>, serverId |-> tool.serverId,
     serverName |-> tool.serverName, name |-> tool.name,
     description |-> tool.description, parameters |-> tool.parameters]

IsSelected(tool) ==
    \E i \in DOMAIN selectedTools :
        selectedTools[i].serverId = tool.serverId /\ selectedTools[i].name = tool.name

handleToolSelection(tool, selected) ==
    /\ Mounted
    /\ selectedTools' =
          IF selected
          THEN Append(selectedTools, SelectedToolOf(tool))
          ELSE Filter(selectedTools,
                      {sel \in Range(selectedTools) :
                          ~(sel.serverId = tool.serverId /\ sel.name = tool.name)})
    /\ Emit(<<>>, inbox)
    /\ lastOp' = "handleToolSelection"
    /\ UNCHANGED <<mainVars, isLoading, pendingToolNames, pendingApproval,
                   alwaysApproveSessions, errorMessage, message, remembered, received>>
    /\ UNCHANGED appVars
    /\ Observe

\* the effect on [availableTools]: selected tools that are no longer listed go
PruneSelectedTools ==
    /\ PruneDue
    /\ selectedTools' =
          Filter(selectedTools,
                 {sel \in Range(selectedTools) : StillAvailable(sel, availableTools)})
    /\ Emit(<<>>, inbox)
    /\ lastOp' = "pruneSelectedTools"
    /\ UNCHANGED <<mainVars, isLoading, pendingToolNames, pendingApproval,
                   alwaysApproveSessions, errorMessage, message, remembered, received>>
    /\ UNCHANGED appVars
    /\ Observe

\* ------------------------------------------- MainLayout: the Azure settings
\* The effect that asks the server for its settings. `configured` is the
\* answer of /azure-config-status (false also when the request fails),
\* `configData` the answer of /azure-config (NoConfig when that request
\* fails).  A ChatInterface that is no longer rendered loses its state.
checkServerAzureConfig(configured, configData) ==
    /\ serverAzureConfigured' = IF configured THEN "true" ELSE "false"
    /\ azureConfig' = IF configured /\ ~configData.isNull /\ azureConfig.isNull
                      THEN configData ELSE azureConfig
    /\ IF Mounted /\ ~MountedWith(currentSession, azureConfig', serverAzureConfigured')
       THEN ChatInit
       ELSE UNCHANGED chatVars
    /\ Emit(<<>>, inbox)
    /\ lastOp' = "checkServerAzureConfig"
    /\ UNCHANGED <<mainVars, registryVars, isConnected, remembered, received, error>>
    /\ Observe

\* the contents of the settings form: the state `config` of AzureConfigDialog
\* and the API type chosen in it
DialogForms ==
    [endpoint : {"", "https://aoai"}, deployment : {"", "gpt"},
     apiType : {"chat", "responses"}, temperature : {"undefined", "0.7"},
     reasoningEffort : {"none", "high"}]

\* toSnake: the keys that go to the server
toSnake(cfg) ==
    [endpoint |-> cfg.endpoint, deployment |-> cfg.deployment,
     temperature |-> IF cfg.temperature = "undefined" THEN "" ELSE cfg.temperature]

\* the server keeps the settings and answers with what it keeps
ServerSaves(body) == body

\* toCamel: the keys that are taken from the server's answer
toCamel(cfg) ==
    [isNull |-> FALSE, endpoint |-> cfg.endpoint, deployment |-> cfg.deployment,
     apiType |-> "undefined",
     temperature |-> IF cfg.temperature = "" THEN "undefined" ELSE cfg.temperature,
     reasoningEffort |-> "undefined"]

\* AzureConfigDialog.handleSave: what it hands to onSave
PreparedConfig(form) ==
    [endpoint |-> form.endpoint, deployment |-> form.deployment,
     temperature |-> IF form.temperature = "undefined" THEN "" ELSE form.temperature,
     reasoningEffort |-> form.reasoningEffort,
     reasoning_effort |-> IF form.apiType = "responses"
                          THEN (IF form.reasoningEffort # "none"
                                THEN form.reasoningEffort ELSE "")
                          ELSE "undefined",
     apiType |-> form.apiType]

\* AzureConfigDialog.handleSave refuses a form without endpoint or deployment
handleSaveReturns(form) == form.endpoint = "" \/ form.deployment = ""

\* MainLayout.handleSaveAzureConfig: the settings go to the server through
\* toSnake and the answer comes back through toCamel
handleSaveAzureConfig(config) ==
    /\ azureConfig' = toCamel(ServerSaves(toSnake(config)))
    /\ serverAzureConfigured' = "true"
    /\ Emit(<<>>, inbox)
    /\ lastOp' = "handleSaveAzureConfig"
    /\ UNCHANGED <<mainVars, chatVars, registryVars, isConnected, remembered, received, error>>
    /\ Observe

\* ----------------------------------------------- SocketContext: the channel
\* the same handler, clearing the session list as well
OnDisconnectClearsSessions ==
    /\ isConnected
    /\ isConnected' = FALSE
    /\ sessions' = <<>>
    /\ Emit(<<>>, inbox)
    /\ lastOp' = "disconnect"
    /\ UNCHANGED <<currentSession, chatVars, registryVars, configVars, remembered, received, error>>
    /\ Observe

\* newSocket.on('disconnect')
OnDisconnect ==
    /\ isConnected
    /\ isConnected' = FALSE
    /\ Emit(<<>>, inbox)
    /\ lastOp' = "disconnect"
    /\ UNCHANGED <<mainVars, chatVars, registryVars, configVars, remembered, received, error>>
    /\ Observe

\* newSocket.on('connect_error'): an attempt to reconnect failed
OnConnectError ==
    /\ ~isConnected
    /\ isConnected' = FALSE
    /\ Emit(<<>>, inbox)
    /\ lastOp' = "connect_error"
    /\ UNCHANGED <<mainVars, chatVars, registryVars, configVars, remembered, received, error>>
    /\ Observe

\* newSocket.on('connect'): the socket sends what it buffered
OnConnect ==
    /\ ~isConnected
    /\ isConnected' = TRUE
    /\ LET r == BackendReceiveAll(backend, sendBuffer)
       IN  /\ backend' = r.b
           /\ inbox' = inbox \o r.out
    /\ sendBuffer' = <<>>
    /\ emitted' = <<>>
    /\ lastOp' = "connect"
    /\ UNCHANGED <<mainVars, chatVars, registryVars, configVars, remembered, received, error>>
    /\ Observe

\* ------------------------------------------------- the backend's own steps
Push(b, ev, op) ==
    /\ backend' = b
    /\ inbox' = Append(inbox, ev)
    /\ emitted' = <<>>
    /\ lastOp' = op
    /\ UNCHANGED sendBuffer
    /\ UNCHANGED <<mainVars, chatVars, remembered, received>>
    /\ UNCHANGED appVars
    /\ Observe

ToolsShown == Len(pendingToolNames)
               + Cardinality({i \in DOMAIN inbox : inbox[i].type = "toolStarted"})

BackendToolStarted(s) ==
    /\ s \in backend.generating
    /\ Awaiting(backend, s) = {}
    /\ Room(1)
    /\ ToolsShown < MaxTools
    /\ \E t \in ToolNames :
          Push(backend, [type |-> "toolStarted", sessionId |-> s, toolName |-> t],
               "backendToolStarted")

BackendApprovalRequired(s) ==
    /\ s \in backend.generating
    /\ Awaiting(backend, s) = {}
    /\ Room(1)
    /\ Len(backend.requests) < MaxReq
    /\ LET id == Len(backend.requests) + 1
           b  == [backend EXCEPT !.requests =
                     Append(@, [sessionId |-> s, status |-> "awaiting"])]
       IN  Push(b, [type |-> "approvalRequired", req |-> [id |-> id, sessionId |-> s]],
                "backendApprovalRequired")

\* the session as it is now (its policy may have changed)
BackendSessionUpdated(s) ==
    /\ s \in backend.generating
    /\ Room(1)
    /\ Push(backend, [type |-> "sessionUpdated", session |-> Payload(backend, s)],
            "backendSessionUpdated")

\* a message was appended to the session: its update timestamp advances
BackendSessionTouched(s) ==
    /\ s \in backend.generating
    /\ Room(1)
    /\ backend.sessions[s].updatedAt < MaxVer
    /\ LET b == [backend EXCEPT !.sessions[s].updatedAt = @ + 1]
       IN  Push(b, [type |-> "sessionUpdated", session |-> Payload(b, s)],
                "backendSessionTouched")

\* the backend confirms a server it accepted, with the identifier it assigned
BackendServerRegistered(n) ==
    /\ backend.servers[n] = "accepted"
    /\ Room(1)
    /\ Push([backend EXCEPT !.servers[n] = "registered"],
            [type |-> "mcpServerRegistered", server |-> ServerConfig(n)],
            "backendServerRegistered")

\* a backend that takes its time answers a getMCPServerTools it received:
\* the tool list it looked up for that request
BackendMcpServerTools(n) ==
    /\ n \in backend.toolsDue
    /\ Room(1)
    /\ Push([backend EXCEPT !.toolsDue = @ \ {n}],
            [type |-> "mcpServerTools", serverId |-> n, tools |-> <<Tool(n)>>],
            "backendMcpServerTools")

\* the backend answers a getMCPServerStatus it received: the server is
\* connected, or its transport failed with a detail
BackendMcpServerStatus(n, status, detail) ==
    /\ n \in backend.statusDue
    /\ Room(1)
    /\ Push([backend EXCEPT !.statusDue = @ \ {n}],
            [type |-> "mcpServerStatus", id |-> n, status |-> status, error |-> detail],
            "backendMcpServerStatus")

\* the tool lists a server may have: none, one or both of two tools
ToolLists(n) ==
    LET forecast == Tool(n)
        alerts   == [Tool(n) EXCEPT !.name = "getAlerts"]
    IN  {<<>>, <<forecast>>, <<alerts>>, <<forecast, alerts>>}

\* the backend reports the tool list of a server, as it is now
BackendToolsChanged(n, tools) ==
    /\ Room(1)
    /\ Push(backend, [type |-> "mcpServerTools", serverId |-> n, tools |-> tools],
            "backendToolsChanged")

\* a named failure of the backend, sent to the client as it occurs
BackendError ==
    /\ Room(1)
    /\ Push(backend, [type |-> "error", message |-> "launch failed"], "backendError")

BackendMessageResponse(s) ==
    /\ s \in backend.generating
    /\ Awaiting(backend, s) = {}
    /\ Room(1)
    /\ LET b == [backend EXCEPT !.generating = @ \ {s}]
       IN  Push(b, [type |-> "messageResponse", sessionId |-> s], "backendMessageResponse")

\* ------------------------------------------------------------ specification
\* The pending-approval prompt is a modal dialog: while it is open the rest of
\* the page takes no click or key.
PageEnabled == pendingApproval = NoReq /\ ~showMCPManager

\* The server manager is a dialog of its own, under a later approval prompt.
ManagerEnabled == pendingApproval = NoReq /\ showMCPManager

\* "New Chat": disabled={!isConnected}
NewSession == PageEnabled /\ isConnected /\ HandleNewSession
LoadSession == PageEnabled /\ \E s \in SessionIds : HandleLoadSession(s)
DeleteSession == PageEnabled /\ \E s \in SessionIds : HandleDeleteSession(s)
\* the user writes a message into the empty input field
TypeMessage == PageEnabled /\ InputEnabled /\ message = <<>> /\ SetMessage(<<"a">>)
\* the text handler called with any text
TypeAnything == \E text \in Texts \ {message} : SetMessage(text)
SendMessage == PageEnabled /\ SendEnabled /\ handleSendMessage
ToolSelection ==
    /\ PageEnabled
    /\ ~configIsEffectivelyMissing
    /\ \E i \in DOMAIN availableTools :
          handleToolSelection(availableTools[i], ~IsSelected(availableTools[i]))
OpenManager == PageEnabled /\ OpenMCPManager
CloseManager == ManagerEnabled /\ CloseMCPManager
\* the names typed into the form
ServerNames == {"", "weather"}
NewServerForm == ManagerEnabled /\ ~showAddForm /\ ~showSavedServers /\ ShowAddForm
SavedServerList == ManagerEnabled /\ ~showAddForm /\ ~showSavedServers /\ ShowSavedServers
TypeServerName ==
    ManagerEnabled /\ showAddForm /\ \E name \in ServerNames \ {newServer} : setNewServerName(name)
\* disabled={!newServer.name || !newServer.transport}
AddServer == ManagerEnabled /\ showAddForm /\ newServer # "" /\ handleAddServer
\* handleAddServer whenever the form is shown, whatever the form holds
SubmitAddForm == ManagerEnabled /\ showAddForm /\ handleAddServer
AddSavedServer ==
    ManagerEnabled /\ showSavedServers /\ \E saved \in SavedServers : handleAddSavedServer(saved)
McpServerTools == \E n \in ServerIds : BackendMcpServerTools(n)
McpServerStatus ==
    \E n \in ServerIds :
       \/ BackendMcpServerStatus(n, "connected", "")
       \/ \E detail \in ErrorDetails : BackendMcpServerStatus(n, "error", detail)
RemoveServer == ManagerEnabled /\ \E n \in ServerIds : handleRemoveServer(n)
ServerRegistered == \E n \in ServerIds : BackendServerRegistered(n)
CheckServerConfig ==
    \E configured \in BOOLEAN :
       \E configData \in (IF configured THEN Configs ELSE {NoConfig}) :
          checkServerAzureConfig(configured, configData)
SaveAzureConfig ==
    /\ PageEnabled
    /\ \E form \in DialogForms :
          ~handleSaveReturns(form) /\ handleSaveAzureConfig(PreparedConfig(form))
StopGeneration == PageEnabled /\ StopEnabled /\ handleStopGeneration
SendApproval == DialogOpen /\ ResolveApproval
\* handleApproval called with the arguments of one of the older dialog's
\* buttons, in any state of the view
LegacyApproval == \E c \in ApprovalChoices : handleApproval(c[1], c[2])
ToolStarted == \E s \in SessionIds : BackendToolStarted(s)
ApprovalRequired == \E s \in SessionIds : BackendApprovalRequired(s)
SessionUpdated == \E s \in SessionIds : BackendSessionUpdated(s)
SessionTouched == \E s \in SessionIds : BackendSessionTouched(s)
MessageResponse == \E s \in SessionIds : BackendMessageResponse(s)

\* The client with its sessions, generations and approvals.
Next ==
    \/ OnSessionCreated
    \/ OnSessions
    \/ OnMcpServers
    \/ OnSessionLoaded
    \/ OnSessionUpdated
    \/ OnMessageResponse
    \/ OnToolStarted
    \/ OnApprovalRequired
    \/ OnUnheard
    \/ NewSession
    \/ LoadSession
    \/ DeleteSession
    \/ TypeMessage
    \/ SendMessage
    \/ SendApproval
    \/ StopGeneration
    \/ ToolStarted
    \/ ApprovalRequired
    \/ SessionUpdated
    \/ MessageResponse

Spec == Init /\ [][Next]_vars

\* Approvals alone: sessions are only created, no tool is reported.  The
\* resolving function is called here in any state of the view, also when no
\* request is pending.
NextApproval ==
    \/ OnSessionCreated
    \/ OnSessions
    \/ OnMcpServers
    \/ OnMessageResponse
    \/ OnApprovalRequired
    \/ NewSession
    \/ TypeMessage
    \/ SendMessage
    \/ ResolveApproval
    \/ StopGeneration
    \/ ApprovalRequired
    \/ MessageResponse

SpecApproval == Init /\ [][NextApproval]_vars

\* The two approval dialogs: both resolving functions are called in any
\* state of the view.
NextLegacy ==
    \/ OnSessionCreated
    \/ OnSessions
    \/ OnMcpServers
    \/ OnMessageResponse
    \/ OnApprovalRequired
    \/ NewSession
    \/ TypeMessage
    \/ SendMessage
    \/ ResolveApproval
    \/ LegacyApproval
    \/ ApprovalRequired
    \/ MessageResponse

SpecLegacy == Init /\ [][NextLegacy]_vars

\* Generations alone: tools run without asking for approval.  The stop
\* handler has no guard of its own and is called here in any state of the
\* view, Idle included.
NextGeneration ==
    \/ OnSessionCreated
    \/ OnSessions
    \/ OnMcpServers
    \/ OnSessionLoaded
    \/ OnMessageResponse
    \/ OnToolStarted
    \/ OnUnheard
    \/ NewSession
    \/ LoadSession
    \/ DeleteSession
    \/ TypeMessage
    \/ SendMessage
    \/ handleStopGeneration
    \/ ToolStarted
    \/ MessageResponse

SpecGeneration == Init /\ [][NextGeneration]_vars

\* The session registry alone: generations without tools or approvals, with
\* the sessions' update timestamps advancing.
NextSessions ==
    \/ OnSessionCreated
    \/ OnSessions
    \/ OnMcpServers
    \/ OnSessionLoaded
    \/ OnSessionUpdated
    \/ OnMessageResponse
    \/ OnUnheard
    \/ NewSession
    \/ LoadSession
    \/ DeleteSession
    \/ TypeMessage
    \/ SendMessage
    \/ StopGeneration
    \/ SessionTouched
    \/ MessageResponse

SpecSessions == Init /\ [][NextSessions]_vars

\* Composing a message: the settings, the text and the tool selection, with
\* the tools of servers the backend already has.  The text and send handlers
\* are called here in any state of the view.
NextCompose ==
    \/ OnSessionCreated
    \/ OnSessions
    \/ OnMcpServers
    \/ OnMcpServerTools
    \/ OnMessageResponse
    \/ NewSession
    \/ TypeAnything
    \/ handleSendMessage
    \/ ToolSelection
    \/ CheckServerConfig
    \/ SaveAzureConfig
    \/ MessageResponse

SpecCompose == InitCompose /\ [][NextCompose]_vars

\* Errors of the backend, with the sessions and generations during which
\* they arrive and the components that listen to them.
NextErrors ==
    \/ OnSessionCreated
    \/ OnSessions
    \/ OnMcpServers
    \/ OnMessageResponse
    \/ OnUnheard
    \/ OnError
    \/ ErrorTimeout
    \/ handleCloseError
    \/ NewSession
    \/ DeleteSession
    \/ TypeMessage
    \/ SendMessage
    \/ OpenManager
    \/ CloseManager
    \/ BackendError
    \/ MessageResponse

SpecErrors == Init /\ [][NextErrors]_vars

\* The server registry with the tool list and the tool selection, over a
\* channel that goes down and up.
NextRegistry ==
    \/ OnSessionCreated
    \/ OnSessions
    \/ OnMcpServers
    \/ OnMcpServerRegistered
    \/ OnMcpServerTools
    \/ OnMcpServerRemoved
    \/ OnDisconnect
    \/ OnConnectError
    \/ OnConnect
    \/ PruneSelectedTools
    \/ NewSession
    \/ ToolSelection
    \/ OpenManager
    \/ CloseManager
    \/ SavedServerList
    \/ AddSavedServer
    \/ RemoveServer
    \/ ServerRegistered

SpecRegistry == Init /\ [][NextRegistry]_vars

\* The server manager: the form, the saved servers, the registrations and
\* the status reports, with handleAddServer called whatever the form holds.
NextManager ==
    \/ OnSessions
    \/ OnMcpServers
    \/ OnMcpServerRegistered
    \/ OnMcpServerTools
    \/ OnMcpServerRemoved
    \/ OnMcpServerStatus
    \/ OnStatusUnheard
    \/ OpenManager
    \/ CloseManager
    \/ NewServerForm
    \/ SavedServerList
    \/ TypeServerName
    \/ SubmitAddForm
    \/ AddSavedServer
    \/ RemoveServer
    \/ ServerRegistered
    \/ McpServerStatus

SpecManager == Init /\ [][NextManager]_vars

\* The tool list alone: the backend reports the tool lists of its servers,
\* in any order and as often as it likes.
ToolsChanged ==
    \E n \in 1..MaxToolServers : \E tools \in ToolLists(n) : BackendToolsChanged(n, tools)

NextToolList ==
    \/ OnSessions
    \/ OnMcpServers
    \/ OnMcpServerTools
    \/ ToolsChanged

SpecToolList == Init /\ [][NextToolList]_vars

\* The tools: a backend that serves a tool server from the start, the tool
\* selection and its pruning, the removal of the server, and the sending.
BackendLazy == [BackendServing EXCEPT !.lazy = TRUE]
InitTools == InitWith(BackendLazy, FullConfig, "false")

NextTools ==
    \/ OnSessionCreated
    \/ OnSessions
    \/ OnMcpServers
    \/ OnMcpServerTools
    \/ OnMcpServerRemoved
    \/ OnMessageResponse
    \/ PruneSelectedTools
    \/ NewSession
    \/ TypeMessage
    \/ SendMessage
    \/ ToolSelection
    \/ OpenManager
    \/ CloseManager
    \/ RemoveServer
    \/ McpServerTools
    \/ MessageResponse

SpecTools == InitTools /\ [][NextTools]_vars

\* The requests that the handlers make by themselves: the backend serves a
\* tool server and answers each request later with its one response.  The
\* user opens and closes the server manager and removes servers; the
\* handlers and the backend's answers are not left undone forever.
UserOfManager == OpenManager \/ CloseManager \/ RemoveServer

HandlersAndAnswers ==
    \/ OnSessions
    \/ OnMcpServers
    \/ OnMcpServerTools
    \/ OnMcpServerRemoved
    \/ OnMcpServerStatus
    \/ OnStatusUnheard
    \/ McpServerTools
    \/ McpServerStatus

NextSettle == HandlersAndAnswers \/ UserOfManager

SpecSettle == InitTools /\ [][NextSettle]_vars /\ WF_vars(HandlersAndAnswers)

\* The channel going down and up under the sessions and their generations.
NextChannel ==
    \/ OnSessionCreated
    \/ OnSessions
    \/ OnMcpServers
    \/ OnSessionLoaded
    \/ OnMessageResponse
    \/ OnUnheard
    \/ OnDisconnect
    \/ OnConnectError
    \/ OnConnect
    \/ NewSession
    \/ LoadSession
    \/ DeleteSession
    \/ TypeMessage
    \/ SendMessage
    \/ StopGeneration
    \/ MessageResponse

SpecChannel == Init /\ [][NextChannel]_vars

\* The socket delivers what is in flight and reconnects after a loss, and
\* the backend finishes its generations: these steps are not left undone
\* forever.  The user's steps are under no such condition.
ChannelDelivers ==
    \/ OnSessionCreated
    \/ OnSessions
    \/ OnMcpServers
    \/ OnSessionLoaded
    \/ OnMessageResponse
    \/ OnUnheard
    \/ OnConnect
    \/ MessageResponse

SpecChannelLive == Init /\ [][NextChannel]_vars /\ WF_vars(ChannelDelivers)

\* ------------------------------------------------------------------ claims
Owner(id) == backend.requests[id].sessionId
Status(id) == backend.requests[id].status
IsResult(e) == e.type = "approvalResult"

\* Some copy of session s the client holds carries autoApproveAll.
CopySaysAuto(s) ==
    \/ currentSession.id = s /\ currentSession.autoApproveAll
    \/ \E i \in DOMAIN sessions : sessions[i].id = s /\ sessions[i].autoApproveAll

\* The auto-approve policy of session s, by any account the client has of it.
PolicyOf(s) == alwaysApproveSessions[s] \/ s \in remembered \/ CopySaysAuto(s)

\* C1: once the user resolved a request of session S with "approve and
\* remember", no later approvalRequired of S becomes a pending prompt.
C1_RememberedNeverPrompts ==
    pendingApproval # NoReq => pendingApproval.sessionId \notin remembered

\* C2: the approvalRequired handler answers a request by itself only if the
\* policy of the session that owns the request is true.
C2_AutoApprovalNeedsOwnersPolicy ==
    (lastOp = "approvalRequired" /\ emitted # <<>>) => PolicyOf(Owner(emitted[1].id))

\* C3: every request the client received is the pending prompt, or was
\* resolved once, or was dropped with its cancelled session: none is lost.
C3_NoReceivedRequestLost ==
    \A r \in received :
        pendingApproval.id = r \/ Status(r) \in {"resolved", "cancelled", "dropped"}

\* C4: sendApproval with no request pending emits nothing and changes neither
\* a policy nor anything else of the client or the backend.
C4_ResolveWithoutPendingIsNoOp ==
    [][(lastOp' = "sendApproval" /\ pendingApproval = NoReq) =>
          /\ emitted' = <<>>
          /\ alwaysApproveSessions' = alwaysApproveSessions
          /\ pendingApproval' = NoReq
          /\ <<sessions, currentSession, isLoading, pendingToolNames>>' =
             <<sessions, currentSession, isLoading, pendingToolNames>>
          /\ <<backend, inbox, remembered>>' = <<backend, inbox, remembered>>]_vars

\* sendApproval returned early although a request had been resolved before
C4_Witness ==
    /\ lastOp = "sendApproval"
    /\ emitted = <<>>
    /\ pendingApproval = NoReq
    /\ \E r \in received : Status(r) = "resolved"

\* C5: "approve and remember" sets the policy of the session that owns the
\* resolved request, and of no other session.
C5_RememberUpgradesOwner ==
    [][(lastOp' = "sendApproval" /\ pendingApproval # NoReq
        /\ emitted'[1].approved /\ emitted'[1].approveAll) =>
          alwaysApproveSessions' =
              [alwaysApproveSessions EXCEPT ![pendingApproval.sessionId] = TRUE]]_vars

\* C6: a session once displayed with its policy true is never displayed with
\* its policy false (here for the sessions the backend still holds).
C6_PolicyMonotonic ==
    \A s \in everAuto : (currentSession.id = s /\ Live(backend, s)) => alwaysApprove

\* C7: no resolution has approved = false with approveAll = true, and a
\* denial leaves every session's policy as it was.
C7_DenialNeverUpgrades ==
    [][/\ \A i \in DOMAIN emitted' :
             IsResult(emitted'[i]) => (emitted'[i].approveAll => emitted'[i].approved)
       /\ (lastOp' = "sendApproval" /\ emitted' # <<>> /\ ~emitted'[1].approved) =>
             /\ alwaysApproveSessions' = alwaysApproveSessions
             /\ <<sessions, currentSession, remembered>>' =
                <<sessions, currentSession, remembered>>
             /\ backend'.sessions = backend.sessions]_vars

\* a pending request was denied
C7_Witness ==
    /\ lastOp = "sendApproval"
    /\ emitted # <<>>
    /\ ~emitted[1].approved
    /\ Status(emitted[1].id) = "resolved"

\* C8: right after handleStopGeneration no prompt of the stopped session is
\* pending, and no approval is emitted for a request that the stop cancelled.
C8_StopDropsApprovals ==
    /\ lastOp = "handleStopGeneration" =>
          (pendingApproval = NoReq \/ pendingApproval.sessionId # currentSession.id)
    /\ \A i \in DOMAIN emitted :
          (IsResult(emitted[i]) /\ emitted[i].approved
           /\ emitted[i].id \in DOMAIN backend.requests)
             => Status(emitted[i].id) # "cancelled"

\* C9: handleStopGeneration leaves the view Idle with no tool name shown, in
\* the same step, and emits exactly one stopGeneration with the session's id.
C9_StopIsImmediate ==
    [][lastOp' = "handleStopGeneration" =>
          /\ isLoading' = FALSE
          /\ pendingToolNames' = <<>>
          /\ emitted' = <<[type |-> "stopGeneration", sessionId |-> currentSession.id]>>
          /\ inbox' = inbox
          /\ currentSession' = currentSession]_vars

\* the stop came after the backend had finished: its messageResponse is in flight
C9_Witness ==
    /\ lastOp = "handleStopGeneration"
    /\ \E i \in DOMAIN inbox : /\ inbox[i].type = "messageResponse"
                               /\ inbox[i].sessionId = currentSession.id

\* C10: sessionUpdated(S) replaces the displayed session by S if and only if
\* their ids are equal, and replaces exactly the list entries with S's id.
C10_SessionUpdatedById ==
    [][lastOp' = "sessionUpdated" =>
          LET S == Head(inbox).session
          IN  /\ currentSession' # currentSession => currentSession.id = S.id
              /\ (currentSession # NoSession /\ currentSession.id = S.id)
                    => currentSession' = S
              /\ Len(sessions') = Len(sessions)
              /\ \A i \in DOMAIN sessions :
                    sessions'[i] = IF sessions[i].id = S.id THEN S ELSE sessions[i]]_vars

\* an update of a background session has been applied
C10_Witness ==
    /\ lastOp = "sessionUpdated"
    /\ Mounted
    /\ \E i \in DOMAIN sessions : /\ sessions[i].id # currentSession.id
                                  /\ sessions[i].updatedAt > 0

\* C11: the step that handles mcpServerRemoved(id) leaves no server with that
\* id, no listed tool of it and no selected tool of it.
C11_RemovalPrunesInSameStep ==
    [][lastOp' = "mcpServerRemoved" =>
          LET id == Head(inbox).serverId
          IN  /\ \A i \in DOMAIN mcpServers' : mcpServers'[i].id # id
              /\ \A i \in DOMAIN availableTools' : availableTools'[i].serverId # id
              /\ \A i \in DOMAIN selectedTools' : selectedTools'[i].serverId # id]_vars

\* C12: no sendMessage is emitted for a session whose generation, started by
\* an earlier sendMessage, has neither finished nor been stopped.
C12_NoSendWhileGenerating ==
    [][(lastOp' = "handleSendMessage" /\ emitted' # <<>>) =>
          emitted'[1].sessionId \notin backend.generating]_vars

IsBlank(text) == \A i \in DOMAIN text : text[i] = " "

\* C13: handleSendMessage called with no settings, with settings that lack
\* the endpoint or the deployment, or with a blank text emits nothing and
\* changes nothing: the view stays as it was, Idle if it was Idle.
C13_SendFailsFast ==
    [][(lastOp' = "handleSendMessage"
        /\ (azureConfig.isNull \/ azureConfig.endpoint = "" \/ azureConfig.deployment = ""
            \/ IsBlank(message))) =>
          /\ emitted' = <<>>
          /\ isLoading' = isLoading
          /\ <<message, selectedTools, pendingToolNames, pendingApproval,
               alwaysApproveSessions>>' =
             <<message, selectedTools, pendingToolNames, pendingApproval,
               alwaysApproveSessions>>
          /\ <<sessions, currentSession, mcpServers, availableTools, azureConfig>>' =
             <<sessions, currentSession, mcpServers, availableTools, azureConfig>>
          /\ <<backend, inbox, sendBuffer>>' = <<backend, inbox, sendBuffer>>]_vars

\* a send with a text, refused for settings that lack the deployment
C13_Witness ==
    /\ lastOp = "handleSendMessage"
    /\ emitted = <<>>
    /\ ~isLoading
    /\ ~IsBlank(message)
    /\ ~azureConfig.isNull
    /\ azureConfig.deployment = ""

\* C14: a send whose preconditions hold makes the view Generating and emits
\* one sendMessage with the displayed session's id, the text without its
\* surrounding blanks, the settings, and for every selected tool, in order,
\* its server id, name, description and parameter schema.
C14_SendCarriesFullSelection ==
    [][(lastOp' = "handleSendMessage"
        /\ ~azureConfig.isNull /\ azureConfig.endpoint # "" /\ azureConfig.deployment # ""
        /\ ~IsBlank(message)) =>
          /\ isLoading'
          /\ Len(emitted') = 1
          /\ LET e == emitted'[1]
             IN  /\ e.type = "sendMessage"
                 /\ e.sessionId = currentSession.id
                 /\ e.azureConfig = azureConfig
                 /\ e.message # <<>>
                 /\ e.message[1] # " " /\ e.message[Len(e.message)] # " "
                 /\ \E i \in 0..Len(message) :
                       SubSeq(message, i + 1, i + Len(e.message)) = e.message
                 /\ Len(e.selectedTools) = Len(selectedTools)
                 /\ \A i \in DOMAIN selectedTools :
                       LET sent == e.selectedTools[i]
                           tool == Tool(selectedTools[i].serverId)
                       IN  /\ sent.serverId = tool.serverId
                           /\ sent.name = tool.name
                           /\ sent.description = tool.description
                           /\ sent.parameters = tool.parameters]_vars

\* a text was sent with a tool selected
C14_Witness ==
    /\ lastOp = "handleSendMessage"
    /\ isLoading
    /\ emitted # <<>>
    /\ emitted[1].selectedTools # <<>>
    /\ emitted[1].message = <<"a">>
    /\ message = <<>>

\* C15: the messageResponse of the displayed session leaves the view Idle and
\* the list of tool names empty.
C15_ResponseReturnsToIdle ==
    [][(lastOp' = "messageResponse" /\ Head(inbox).sessionId = currentSession.id) =>
          /\ isLoading' = FALSE
          /\ pendingToolNames' = <<>>]_vars

\* the response of the displayed session arrived, its generation is over
C15_Witness ==
    /\ lastOp = "messageResponse"
    /\ Mounted
    /\ ~isLoading
    /\ pendingToolNames = <<>>
    /\ currentSession.id \notin backend.generating
    /\ inbox = <<>>

\* C16: a toolStarted or messageResponse of another session than the
\* displayed one, which is generating, changes neither the view's
\* Generating/Idle state nor its list of tool names.
C16_EventsOfOtherSessionsIgnored ==
    [][(lastOp' \in {"toolStarted", "messageResponse"}
        /\ Head(inbox).sessionId # currentSession.id
        /\ currentSession.id \in backend.generating) =>
          /\ isLoading' = isLoading
          /\ pendingToolNames' = pendingToolNames]_vars

\* C17: while the channel is not connected no step emits an event.
C17_NoEmitWhileDisconnected ==
    ~isConnected => emitted = <<>>

\* C18: disconnect and connect_error set the connection flag to false and
\* change nothing else of the client.
C18_ChannelLossKeepsState ==
    [][lastOp' \in {"disconnect", "connect_error"} =>
          /\ isConnected' = FALSE
          /\ emitted' = <<>>
          /\ <<sessions, currentSession, mcpServers, availableTools, showMCPManager,
               azureConfig, serverAzureConfigured>>' =
             <<sessions, currentSession, mcpServers, availableTools, showMCPManager,
               azureConfig, serverAzureConfigured>>
          /\ <<isLoading, pendingToolNames, pendingApproval, alwaysApproveSessions,
               message, selectedTools>>' =
             <<isLoading, pendingToolNames, pendingApproval, alwaysApproveSessions,
               message, selectedTools>>]_vars

\* the channel was lost with a session displayed, a server registered and
\* one of its tools selected
C18_Witness ==
    /\ lastOp = "disconnect"
    /\ ~isConnected
    /\ Mounted
    /\ sessions # <<>>
    /\ mcpServers # <<>>
    /\ selectedTools # <<>>

\* C19: the step that handles a server list makes the registry that list and
\* emits, for every entry, a tool-list request and a status request.
C19_ServerListReconciled ==
    [][lastOp' = "mcpServers" =>
          LET list == Head(inbox).list
          IN  /\ mcpServers' = list
              /\ \A i \in DOMAIN list :
                    /\ \E j \in DOMAIN emitted' :
                          emitted'[j] = [type |-> "getMCPServerTools", serverId |-> list[i].id]
                    /\ \E j \in DOMAIN emitted' :
                          emitted'[j] = [type |-> "getMCPServerStatus", serverId |-> list[i].id]]_vars

\* C20: no two entries of the registry have the same identifier and none is
\* without one.
C20_RegistryIdsUnique ==
    /\ \A i \in DOMAIN mcpServers : mcpServers[i].id # 0
    /\ \A i, j \in DOMAIN mcpServers : i # j => mcpServers[i].id # mcpServers[j].id

\* C24: the step of deleteSession(id) leaves no session with that id in the
\* session list; it clears the displayed session if that was the one deleted
\* and leaves it as it was otherwise.
C24_DeleteRemovesSession ==
    [][lastOp' = "handleDeleteSession" =>
          LET id == emitted'[1].sessionId
          IN  /\ \A i \in DOMAIN sessions' : sessions'[i].id # id
              /\ currentSession.id = id => currentSession' = NoSession
              /\ currentSession.id # id => currentSession' = currentSession]_vars

\* C27: in every state the displayed session list holds exactly the sessions
\* of the registry, each as often as the registry does, and no session is
\* displayed above one with a later update timestamp.
C27_ListShownNewestFirst ==
    LET shown == sortedSessions(sessions)
    IN  /\ Len(shown) = Len(sessions)
        /\ \A x \in Range(sessions) \cup Range(shown) :
              Cardinality({i \in DOMAIN shown : shown[i] = x})
                 = Cardinality({i \in DOMAIN sessions : sessions[i] = x})
        /\ \A i, j \in DOMAIN shown :
              i < j => shown[i].updatedAt >= shown[j].updatedAt

\* a sessionUpdated advanced the timestamp of a session that the registry
\* holds behind an older one: the display differs from the registry's order
C27_Witness ==
    /\ lastOp = "sessionUpdated"
    /\ \E i, j \in DOMAIN sessions : i < j /\ sessions[i].updatedAt < sessions[j].updatedAt
    /\ sortedSessions(sessions) # sessions

\* C25: the settings of every sendMessage emitted name their mode, chat or
\* responses, and carry no parameter of the other mode's set.
C25_ConfigHasOneParameterSet ==
    \A i \in DOMAIN emitted :
       emitted[i].type = "sendMessage" =>
          LET config == emitted[i].azureConfig
          IN  /\ config.apiType \in {"chat", "responses"}
              /\ config.apiType = "chat" => config.reasoningEffort = "undefined"
              /\ config.apiType = "responses" => config.temperature = "undefined"

\* C22: the step that handles an error event leaves the view's Generating or
\* Idle state, its tool names, its pending approval and its policies, the
\* sessions, the displayed session, the servers and the tools as they were.
C22_ErrorChangesMessageOnly ==
    [][lastOp' = "error" =>
          /\ isLoading' = isLoading
          /\ <<pendingToolNames, pendingApproval, alwaysApproveSessions>>' =
             <<pendingToolNames, pendingApproval, alwaysApproveSessions>>
          /\ <<sessions, currentSession, mcpServers, availableTools>>' =
             <<sessions, currentSession, mcpServers, availableTools>>]_vars

\* C23: the step that handles an error event finds a listener registered and
\* leaves an error message displayed.
C23_ErrorAlwaysDisplayed ==
    [][lastOp' = "error" =>
          /\ errorListeners # {}
          /\ error' # "" \/ errorMessage' # "" \/ managerError' # ""]_vars

\* the identifiers of the servers of a server list
ServerIdsOf(servers) == {servers[i].id : i \in DOMAIN servers}

\* C28: handleAddServer with an empty server name emits no registerMCPServer
\* event and leaves the form and the server registry unchanged.
C28_EmptyNameBlocked ==
    [][(lastOp' = "handleAddServer" /\ newServer = "")
          => /\ \A i \in DOMAIN emitted' : emitted'[i].type # "registerMCPServer"
             /\ UNCHANGED <<managerVars, mcpServers, availableTools>>]_vars

\* handleAddServer has run on the form with an empty name
C28_Witness ==
    lastOp = "handleAddServer" /\ showAddForm /\ newServer = "" /\ emitted = <<>>

C21_RegistrationConfirmed ==
    [][/\ lastOp' \in {"handleAddServer", "handleAddSavedServer"}
          => /\ \A i \in DOMAIN emitted' :
                   emitted'[i].type = "registerMCPServer" => emitted'[i].server.id = 0
             /\ UNCHANGED <<mcpServers, availableTools>>
       /\ \A n \in ServerIds :
             (n \in ServerIdsOf(mcpServers') \ ServerIdsOf(mcpServers))
                => \/ lastOp' = "mcpServerRegistered" /\ Head(inbox).server.id = n
                   \/ lastOp' = "mcpServers" /\ n \in ServerIdsOf(Head(inbox).list)]_vars

\* a saved server was sent for registration, and the backend has accepted it
C21_Witness ==
    /\ lastOp = "handleAddSavedServer"
    /\ emitted # <<>>
    /\ emitted[1].server.id = 0
    /\ \E n \in ServerIds : backend.servers[n] = "accepted"
    /\ mcpServers = <<>>

\* C21 as the specification states it: a server enters the registry only
\* with the mcpServerRegistered that carries its identifier.
C21_OnlyOnRegistered ==
    [][/\ lastOp' \in {"handleAddServer", "handleAddSavedServer"}
          => /\ \A i \in DOMAIN emitted' :
                   emitted'[i].type = "registerMCPServer" => emitted'[i].server.id = 0
             /\ UNCHANGED <<mcpServers, availableTools>>
       /\ \A n \in ServerIds :
             (n \in ServerIdsOf(mcpServers') \ ServerIdsOf(mcpServers))
                => lastOp' = "mcpServerRegistered" /\ Head(inbox).server.id = n]_vars

\* C29: in every reachable state every tool of the tool list is owned by a
\* server of the server registry, and no two listed tools have the same
\* (serverId, name).
C29_ToolsOwnedAndUnique ==
    /\ \A i \in DOMAIN availableTools : availableTools[i].serverId \in ServerIdsOf(mcpServers)
    /\ \A i, j \in DOMAIN availableTools :
          (/\ availableTools[i].serverId = availableTools[j].serverId
           /\ availableTools[i].name = availableTools[j].name) => i = j

\* C30: every sendMessage that is emitted carries only selected tools that
\* the tool list holds at the moment of the emission.
C30_SendsOnlyListedTools ==
    [][(lastOp' = "handleSendMessage" /\ emitted' # <<>>)
          => \A i \in DOMAIN emitted'[1].selectedTools :
                StillAvailable(emitted'[1].selectedTools[i], availableTools)]_vars

\* A generation of session s is in flight: the backend is generating for it,
\* or its messageResponse or its sendMessage is still on the way.
GenerationInFlight(s) ==
    \/ s \in backend.generating
    \/ \E i \in DOMAIN inbox : inbox[i].type = "messageResponse" /\ inbox[i].sessionId = s
    \/ \E i \in DOMAIN sendBuffer :
          sendBuffer[i].type = "sendMessage" /\ sendBuffer[i].sessionId = s

\* C31: a displayed session that the backend holds is shown Generating only
\* while a generation of that session is in flight; right after sessionLoaded
\* or sessionCreated made a session without one the displayed session, the
\* view is Idle and shows no tool name.
C31_GeneratingPerSession ==
    /\ (Mounted /\ isLoading /\ Live(backend, currentSession.id))
          => GenerationInFlight(currentSession.id)
    /\ (/\ lastOp \in {"sessionLoaded", "sessionCreated"}
        /\ Mounted
        /\ ~GenerationInFlight(currentSession.id))
          => ~isLoading /\ pendingToolNames = <<>>

\* C32: whenever the view shows a tool name it is Generating.
C32_ToolNamesOnlyWhileGenerating ==
    (Mounted /\ pendingToolNames # <<>>) => isLoading

\* the contents of session s that the client holds, displayed or listed
SessionCopies(s, displayed, list) ==
    {c \in {displayed} \cup Range(list) : c.id = s}

\* C33: handleSendMessage leaves the displayed session and the session list
\* unchanged, and contents of a session that the client did not hold before
\* a step come with sessionUpdated, sessionLoaded, sessionCreated or sessions.
C33_NoOptimisticMessage ==
    [][/\ lastOp' = "handleSendMessage" => UNCHANGED <<currentSession, sessions>>
       /\ \A s \in SessionIds :
             SessionCopies(s, currentSession', sessions')
                   \ SessionCopies(s, currentSession, sessions) # {}
                => lastOp' \in {"sessionUpdated", "sessionLoaded", "sessionCreated",
                                "sessions"}]_vars

\* a message of the displayed session was sent, after an update of it came
C33_Witness ==
    /\ lastOp = "handleSendMessage"
    /\ emitted # <<>>
    /\ currentSession.updatedAt > 0
    /\ currentSession \in Range(sessions)

\* the user has asked for the deletion of session s: the backend has deleted
\* it, or the deleteSession waits in the socket's buffer
DeleteRequested(s) ==
    \/ backend.sessions[s].state = "deleted"
    \/ \E i \in DOMAIN sendBuffer :
          sendBuffer[i].type = "deleteSession" /\ sendBuffer[i].sessionId = s

\* C34: a session whose deletion the user has requested is not the displayed
\* session in any later state.
C34_DeletedNeverDisplayed ==
    \A s \in SessionIds : DeleteRequested(s) => currentSession.id # s

\* the step into this state emitted an event of the type
Emits(type) == \E i \in DOMAIN emitted : emitted[i].type = type

\* C35: after a reconnect the client eventually asks again for the session
\* list and for the server list.
C35_ReconnectReloads ==
    /\ (lastOp = "connect") ~> Emits("getSessions")
    /\ (lastOp = "connect") ~> Emits("getMCPServers")

\* the tools of the list that belong to the server, in the list's order
ToolsOfServer(tools, serverId) ==
    Filter(tools, {tool \in Range(tools) : tool.serverId = serverId})

\* C36: the step that handles mcpServerTools {serverId, tools} leaves as the
\* listed tools of that server exactly the tools received, and leaves the
\* listed tools of every other server as they were.
C36_ToolsReplacedPerServer ==
    [][lastOp' = "mcpServerTools" =>
          LET data == Head(inbox)
          IN  /\ ToolsOfServer(availableTools', data.serverId) = data.tools
              /\ \A n \in (1..MaxToolServers) \ {data.serverId} :
                    ToolsOfServer(availableTools', n) = ToolsOfServer(availableTools, n)
              /\ Len(availableTools') =
                    Len(availableTools) - Len(ToolsOfServer(availableTools, data.serverId))
                       + Len(data.tools)]_vars

\* a server's list was replaced by another while a second server has tools
C36_Witness ==
    /\ lastOp = "mcpServerTools"
    /\ \E n, m \in 1..MaxToolServers :
          /\ n # m
          /\ Len(ToolsOfServer(availableTools, n)) = 1
          /\ Len(ToolsOfServer(availableTools, m)) = 2
          /\ availableTools[Len(availableTools)].serverId = n
          /\ availableTools[Len(availableTools)].name = "getAlerts"

\* C37: handleNewSession changes no state of the client; the step that
\* handles sessionCreated(S) puts S before the entries of the session list,
\* which stay as they were, and makes S the displayed session; no two
\* entries of the session list have the same id.
C37_CreateIsConfirmationDriven ==
    [][/\ lastOp' = "handleNewSession"
          => /\ UNCHANGED <<mainVars, chatVars, registryVars, configVars, isConnected, error>>
             /\ emitted' = <<[type |-> "createNewSession"]>>
       /\ lastOp' = "sessionCreated"
          => LET S == Head(inbox).session
             IN  /\ sessions' = <<S>> \o sessions
                 /\ currentSession' = S
       /\ \A i, j \in DOMAIN sessions' : sessions'[i].id = sessions'[j].id => i = j]_vars

\* a second session was created and is displayed above the first
C37_Witness ==
    /\ lastOp = "sessionCreated"
    /\ Len(sessions) >= 2
    /\ currentSession = sessions[1]

\* nothing is outstanding: no event in flight or buffered, and no request
\* that the backend has yet to answer
NothingOutstanding ==
    /\ inbox = <<>>
    /\ sendBuffer = <<>>
    /\ backend.toolsDue = {}
    /\ backend.statusDue = {}

\* C38: unless the user goes on acting forever, the client comes to a state
\* with nothing outstanding and stays there.
C38_ClientSettles ==
    \/ <>[]NothingOutstanding
    \/ []<><<UserOfManager>>_vars

\* the requests of an opened server manager have all been answered
C38_Witness ==
    /\ NothingOutstanding
    /\ showMCPManager
    /\ lastOp = "mcpServerStatus"
    /\ availableTools # <<>>
    /\ \E n \in ServerIds : serverStatuses[n].status # ""

\* the fields of the events that resolve an approval request
ResolutionFields == {"type", "id", "approved", "approveAll"}

\* C39: the request of the older dialog is always null; a call of
\* handleApproval changes nothing of the view and emits nothing, no
\* approveToolCall is ever emitted, and whenever a pending prompt is resolved
\* the event emitted is one approvalResult {id, approved, approveAll} for it.
C39_LegacyApprovalInert ==
    [][ /\ approvalRequest' = NoReq
        /\ \A i \in DOMAIN emitted' : emitted'[i].type # "approveToolCall"
        /\ (lastOp' = "handleApproval") =>
              /\ emitted' = <<>>
              /\ UNCHANGED <<mainVars, chatVars, backend, inbox, sendBuffer, remembered>>
        /\ (lastOp' = "sendApproval" /\ pendingApproval # NoReq) =>
              /\ Len(emitted') = 1
              /\ DOMAIN emitted'[1] = ResolutionFields
              /\ emitted'[1].type = "approvalResult"
              /\ emitted'[1].id = pendingApproval.id
      ]_vars

\* handleApproval was called while a prompt was pending
C39_Witness ==
    /\ lastOp = "handleApproval"
    /\ pendingApproval # NoReq
    /\ approvalRequest = NoReq

\* an optional value that is not set: the key is absent, or the form left it ''
Unset(v) == v \in {"", "undefined"}

SameValue(a, b) == a = b \/ (Unset(a) /\ Unset(b))

\* toCamel(toSnake(c)) has the values of c, an unset value staying unset
RoundTripKeeps(c) ==
    LET r == toCamel(toSnake(c))
    IN  /\ r.endpoint = c.endpoint
        /\ r.deployment = c.deployment
        /\ SameValue(r.temperature, c.temperature)
        /\ SameValue(r.apiType, c.apiType)
        /\ SameValue(r.reasoningEffort, c.reasoningEffort)

\* C40: the config c that a save step sends through toSnake and takes back
\* through toCamel keeps its endpoint, deployment, mode flag, temperature and
\* reasoning effort: toCamel(toSnake(c)) has the values of c.
C40_RoundTripKeepsConfig ==
    [][lastOp' = "handleSaveAzureConfig" =>
          \E form \in DialogForms :
             /\ ~handleSaveReturns(form)
             /\ azureConfig' = toCamel(ServerSaves(toSnake(PreparedConfig(form))))
             /\ RoundTripKeeps(PreparedConfig(form))
      ]_vars
====
